---- MODULE Spec2Model ----
(***************************************************************************)
(* Model of simple_MPU6050_and_Buzzer.cpp: an MPU6050 motion sample is     *)
(* turned into a melody note and a bass note, both are played on two       *)
(* buzzer pins for the melody's duration, and the loop repeats.            *)
(*                                                                         *)
(* Numbers.  Sensor components are integers in hundredths of a unit        *)
(* (x = 300 is 3.0).  totalAcc and totalSpin are sqrt(x*x + y*y); the code *)
(* only ever compares them with constants, and for m = sqrt(s), c >= 0:    *)
(* m < c  <=>  s < c*c.  A magnitude is therefore carried as its square s  *)
(* and LT/GT/GE compare it with the squared constant, which is exact.      *)
(* random(lo, hi) of the Arduino core returns lo .. hi-1.                  *)
(***************************************************************************)
EXTENDS Integers, Sequences, FiniteSets, TLC

VARIABLES pc, mpu, melodyCurrentNote, bassCurrentNote, a, g,
          tone1, tone2, hold, cycle

vars == <<pc, mpu, melodyCurrentNote, bassCurrentNote, a, g,
          tone1, tone2, hold, cycle>>

\* Number of completed loop() passes that are told apart (the count saturates).
MaxCycle == 2

\* Sensor readings (x, y) offered by getEvent, in hundredths.
AccSamples ==
    { <<20, 0>>, <<50, 0>>, <<36, 48>>, <<75, 0>>, <<120, 160>>,
      <<300, 0>>, <<400, 0>>, <<300, 400>> }

GyroSamples ==
    { <<20, 0>>, <<30, 40>>, <<300, 0>>, <<400, 0>>, <<300, 400>> }

\* The readings offered under FairSpec, one per duration bucket and pitch move.
LiveAccSamples == { <<36, 48>>, <<120, 160>>, <<400, 0>> }
LiveGyroSamples == { <<20, 0>>, <<300, 400>> }

NoEvent == <<0, 0>>

\* Squared magnitude of the (x, y) part of a reading.
Magnitude(e) == e[1] * e[1] + e[2] * e[2]

\* playNote, lines 111-112.
totalAcc == Magnitude(a)
totalSpin == Magnitude(g)

LT(m, c) == m < c * c
GT(m, c) == m > c * c
GE(m, c) == m >= c * c

\* int noteDuration[] (0-based in the code, 1-based here).
noteDuration ==
    << 125, 125, 125, 125, 125, 125, 125, 125, 250, 250,
       250, 250, 500, 500, 500, 500, 1000, 1000, 1000, 1500 >>

harmonicsAudibleLastRow ==
    << <<2, 4, 6>>, <<3, 5, 0>>, <<4, 6, 1>>,
       <<5, 0, 2>>, <<6, 1, 3>>, <<0, 2, 4>>,
       <<1, 3, 5>>, <<2, 4, 6>> >>
\* int harmonics[8][3] of defineBassNote.
harmonics ==
    << <<2, 4, 6>>, <<3, 5, 0>>, <<4, 6, 1>>,
       <<5, 0, 2>>, <<6, 1, 3>>, <<0, 2, 4>>,
       <<1, 3, 5>>, <<7, 7, 7>> >>

\* bb_scale[octave][pitch]: the macro named in the table, as <<name, number>>.
NoteNames == << "AS", "C", "D", "DS", "F", "G", "A" >>
SILENCE == << "SILENCE", 0 >>
bb_scale(octave, pitch) ==
    IF pitch = 7 THEN SILENCE ELSE << NoteNames[pitch + 1], octave + 1 >>

\* A buzzer pin with no tone running.
Off == << "OFF", 0 >>

RandomInclusive(lo, hi) == lo .. hi
\* random(lo, hi): the values it can return.
Random(lo, hi) == lo .. (hi - 1)

DurationIndicesSlowWide(acc) ==
    IF GT(acc, 50) /\ LT(acc, 75) THEN Random(18, 20)
    ELSE IF GT(acc, 75) /\ LT(acc, 300) THEN Random(10, 18)
    ELSE Random(0, 10)
DurationIndicesMidWide(acc) ==
    IF GT(acc, 50) /\ LT(acc, 75) THEN Random(18, 19)
    ELSE IF GT(acc, 75) /\ LT(acc, 300) THEN Random(10, 20)
    ELSE Random(0, 10)
DurationIndicesSlowClosed(acc) ==
    IF GE(acc, 50) /\ LT(acc, 75) THEN Random(18, 19)
    ELSE IF GT(acc, 75) /\ LT(acc, 300) THEN Random(10, 18)
    ELSE Random(0, 10)
\* Lines 56-58: the index range defineNoteDuration draws from.
DurationIndices(acc) ==
    IF GT(acc, 50) /\ LT(acc, 75) THEN Random(18, 19)
    ELSE IF GT(acc, 75) /\ LT(acc, 300) THEN Random(10, 18)
    ELSE Random(0, 10)

\* The values defineNoteDuration can return.
defineNoteDuration(acc) ==
    { noteDuration[i + 1] : i \in DurationIndices(acc) }

MelodyOctaveModulo(octave, acc) ==
    LET o1 == IF LT(acc, 300) THEN octave - 1 ELSE octave + 1
    IN  o1 % 6
MelodyOctaveClamped(octave, acc) ==
    LET o1 == IF LT(acc, 300) THEN octave - 1 ELSE octave
        o2 == IF GE(acc, 300) THEN o1 + 1 ELSE o1
        o3 == IF o2 < 0 THEN 0 ELSE o2
    IN  IF o3 > 5 THEN 5 ELSE o3
\* Lines 73-77: the melody's octave walk and wrap.
MelodyOctave(octave, acc) ==
    LET o1 == IF LT(acc, 300) THEN octave - 1 ELSE octave
        o2 == IF GE(acc, 300) THEN o1 + 1 ELSE o1
        o3 == IF o2 < 0 THEN 5 ELSE o2
    IN  IF o3 > 5 THEN 2 ELSE o3

BassOctaveLikeMelody(octave, spin) ==
    LET o1 == IF LT(spin, 300) THEN octave - 1 ELSE octave
        o2 == IF GE(spin, 300) THEN o1 + 1 ELSE o1
        o3 == IF o2 < 0 THEN 5 ELSE o2
    IN  IF o3 > 5 THEN 2 ELSE o3
BassOctaveNoWrap(octave, spin) ==
    LET o1 == IF LT(spin, 300) THEN octave - 1 ELSE octave
    IN  IF GE(spin, 300) THEN o1 + 1 ELSE o1
\* Lines 99-103: the bass's octave walk and wrap.
BassOctave(octave, spin) ==
    LET o1 == IF LT(spin, 300) THEN octave - 1 ELSE octave
        o2 == IF GE(spin, 300) THEN o1 + 1 ELSE o1
        o3 == IF o2 < 0 THEN 2 ELSE o2
    IN  IF o3 > 5 THEN 0 ELSE o3

Abs(n) == IF n < 0 THEN -n ELSE n

ReduceModulo(p) == p % 7
\* while (pitch > 6) pitch -= 3;
RECURSIVE Reduce(_)
Reduce(p) == IF p > 6 THEN Reduce(p - 3) ELSE p

MelodyPitchNoSilence(pitch, acc, spin, r1, r2) ==
    LET p1 == IF LT(spin, 300) THEN pitch - r1 ELSE pitch
        p2 == IF GT(spin, 400) THEN p1 + r2 ELSE p1
        p3 == IF p2 < 0 THEN Abs(p2) ELSE p2
    IN  Reduce(p3)
\* Lines 79-85: pitch walk with draws r1, r2, fold, reduction, silence override.
MelodyPitch(pitch, acc, spin, r1, r2) ==
    LET p1 == IF LT(spin, 300) THEN pitch - r1 ELSE pitch
        p2 == IF GT(spin, 400) THEN p1 + r2 ELSE p1
        p3 == IF p2 < 0 THEN Abs(p2) ELSE p2
        p4 == Reduce(p3)
    IN  IF LT(acc, 50) \/ LT(spin, 50) THEN 7 ELSE p4

PlayNoteBassFirst == << "bass", "melody" >>
\* Lines 113-114: playNote calls defineMelodyNote, then defineBassNote.
PlayNoteOrder == << "melody", "bass" >>

\* Where control goes after the selector named sel has returned.
AfterSelector(sel) ==
    IF sel = PlayNoteOrder[1] THEN PlayNoteOrder[2] ELSE "tone"

AfterBeginFailureFallThrough == "loop"
\* Lines 134-139: a failed mpu.begin() ends in while (1) delay(10).
AfterBeginFailure == "halted"

DelayArgBass == bassCurrentNote.duration
\* Line 191: delay(melodyCurrentNote.duration).
DelayArg == melodyCurrentNote.duration

\* struct note melodyCurrentNote = {0, 3, 0}; bassCurrentNote = {0, 0, 0};
InitialMelody == [pitch |-> 0, octave |-> 3, duration |-> 0]
InitialBass == [pitch |-> 0, octave |-> 0, duration |-> 0]

Init ==
    /\ pc = "setup"
    /\ mpu = "uninit"
    /\ melodyCurrentNote = InitialMelody
    /\ bassCurrentNote = InitialBass
    /\ a = NoEvent
    /\ g = NoEvent
    /\ tone1 = Off
    /\ tone2 = Off
    /\ hold = 0
    /\ cycle = 0

\* setup(): setMPUConfigurations() with either outcome of mpu.begin().
Setup ==
    /\ pc = "setup"
    /\ \E found \in BOOLEAN :
          IF found
          THEN /\ mpu' = "ready"
               /\ pc' = "loop"
          ELSE /\ mpu' = "absent"
               /\ pc' = AfterBeginFailure
    /\ UNCHANGED <<melodyCurrentNote, bassCurrentNote, a, g,
                   tone1, tone2, hold, cycle>>

\* while (1) { delay(10); } of setMPUConfigurations.
Halted ==
    /\ pc = "halted"
    /\ UNCHANGED vars

\* loop(), line 184: mpu.getEvent(&a, &g, &temp), readings drawn from accs, gyros.
GetEventFrom(accs, gyros) ==
    /\ pc = "loop"
    /\ \E ea \in accs, eg \in gyros :
          /\ a' = ea
          /\ g' = eg
    /\ pc' = PlayNoteOrder[1]
    /\ UNCHANGED <<mpu, melodyCurrentNote, bassCurrentNote,
                   tone1, tone2, hold, cycle>>

GetEvent == GetEventFrom(AccSamples, GyroSamples)

GetEventLive == GetEventFrom(LiveAccSamples, LiveGyroSamples)

\* defineMelodyNote(totalAcc, totalSpin).
defineMelodyNote ==
    /\ pc = "melody"
    /\ \E r1 \in (IF LT(totalSpin, 300) THEN Random(0, 6) ELSE {0}),
              r2 \in (IF GT(totalSpin, 400) THEN Random(0, 6) ELSE {0}),
              d \in defineNoteDuration(totalAcc) :
              melodyCurrentNote' =
                  [pitch |-> MelodyPitch(melodyCurrentNote.pitch,
                                         totalAcc, totalSpin, r1, r2),
                   octave |-> MelodyOctave(melodyCurrentNote.octave, totalAcc),
                   duration |-> d]
    /\ pc' = AfterSelector("melody")
    /\ UNCHANGED <<mpu, bassCurrentNote, a, g, tone1, tone2, hold, cycle>>

\* defineBassNote(totalAcc, totalSpin).
defineBassNote ==
    /\ pc = "bass"
    /\ \E col \in Random(0, 2), d \in defineNoteDuration(totalAcc) :
              bassCurrentNote' =
                  [pitch |-> harmonics[melodyCurrentNote.pitch + 1][col + 1],
                   octave |-> BassOctave(bassCurrentNote.octave, totalSpin),
                   duration |-> d]
    /\ pc' = AfterSelector("bass")
    /\ UNCHANGED <<mpu, melodyCurrentNote, a, g, tone1, tone2, hold, cycle>>

\* playNote, lines 119-120: tone() on both buzzer pins.
StartTones ==
    /\ pc = "tone"
    /\ tone1' = bb_scale(melodyCurrentNote.octave, melodyCurrentNote.pitch)
    /\ tone2' = bb_scale(bassCurrentNote.octave, bassCurrentNote.pitch)
    /\ pc' = "delay"
    /\ UNCHANGED <<mpu, melodyCurrentNote, bassCurrentNote, a, g, hold, cycle>>

\* loop(), line 191: the hold.
Delay ==
    /\ pc = "delay"
    /\ hold' = DelayArg
    /\ pc' = "notone"
    /\ UNCHANGED <<mpu, melodyCurrentNote, bassCurrentNote, a, g,
                   tone1, tone2, cycle>>

\* loop(), lines 192-194: noTone() on both pins, then loop() returns.
StopTones ==
    /\ pc = "notone"
    /\ tone1' = Off
    /\ tone2' = Off
    /\ a' = NoEvent
    /\ g' = NoEvent
    /\ hold' = 0
    /\ cycle' = IF cycle < MaxCycle THEN cycle + 1 ELSE cycle
    /\ pc' = "loop"
    /\ UNCHANGED <<mpu, melodyCurrentNote, bassCurrentNote>>

LoopLive == GetEventLive \/ defineMelodyNote \/ defineBassNote \/ StartTones
               \/ Delay \/ StopTones

Next == Setup \/ Halted \/ GetEvent \/ defineMelodyNote \/ defineBassNote
           \/ StartTones \/ Delay \/ StopTones

Spec == Init /\ [][Next]_vars

NextLive == Setup \/ Halted \/ GetEventLive \/ defineMelodyNote
               \/ defineBassNote \/ StartTones \/ Delay \/ StopTones

\* The loop's steps are straight-line code and a finite delay: each one ends.
FairSpec == Init /\ [][NextLive]_vars /\ WF_vars(LoopLive)



\* Both selectors have run in the current pass of loop().
SelectorsDone == pc \in {"tone", "delay", "notone"}

\* defineMelodyNote has run in the current pass of loop().
MelodyDone == pc \in {"bass", "tone", "delay", "notone"}

\* The entries of the harmonics row of a melody pitch.
HarmonicsRow(pitch) == { harmonics[pitch + 1][c] : c \in 1 .. 3 }

\* 0.5 < totalAcc < 0.75
InSlowBand == GT(totalAcc, 50) /\ LT(totalAcc, 75)

\* 0.75 < totalAcc < 3
InMidBand == GT(totalAcc, 75) /\ LT(totalAcc, 300)

----------------------------------------------------------------------------
\* C1 as stated: with 0.5 < totalAcc < 0.75 the draw is index 18, that entry
\* is 1500 ms, and both voices end the pass with duration 1500.
C1_SlowBandIs1500 ==
    (SelectorsDone /\ InSlowBand) =>
        /\ DurationIndices(totalAcc) = {18}
        /\ noteDuration[18 + 1] = 1500
        /\ melodyCurrentNote.duration = 1500
        /\ bassCurrentNote.duration = 1500

\* C1 amended: with 0.5 < totalAcc < 0.75 defineNoteDuration always draws
\* index 18 of the 20-entry table, that entry is 1000 ms (1500 ms sits at index
\* 19), and both voices end the pass with duration 1000.
C1_SlowBandIs1000 ==
    /\ Len(noteDuration) = 20
    /\ (SelectorsDone /\ InSlowBand) =>
          /\ DurationIndices(totalAcc) = {18}
          /\ noteDuration[18 + 1] = 1000
          /\ melodyCurrentNote.duration = 1000
          /\ bassCurrentNote.duration = 1000

C1_Witness ==
    /\ pc = "tone"
    /\ a = <<36, 48>>
    /\ melodyCurrentNote.duration = 1000
    /\ bassCurrentNote.duration = 1000

\* C2 as stated: with 0.75 < totalAcc < 3 the draw is among indices 10..17 and
\* both durations are 500 or 1000 ms.
C2_MidBandIs500Or1000 ==
    (SelectorsDone /\ InMidBand) =>
        /\ DurationIndices(totalAcc) = 10 .. 17
        /\ melodyCurrentNote.duration \in {500, 1000}
        /\ bassCurrentNote.duration \in {500, 1000}

\* C2 amended: with 0.75 < totalAcc < 3 the draw is among indices 10..17 and
\* the duration is always 250, 500 or 1000 ms (indices 10 and 11 hold 250).
C2_MidBandIs250To1000 ==
    (SelectorsDone /\ InMidBand) =>
        /\ DurationIndices(totalAcc) = 10 .. 17
        /\ defineNoteDuration(totalAcc) = {250, 500, 1000}
        /\ melodyCurrentNote.duration \in {250, 500, 1000}
        /\ bassCurrentNote.duration \in {250, 500, 1000}

C2_Witness ==
    /\ pc = "tone"
    /\ a = <<120, 160>>
    /\ melodyCurrentNote.duration = 250
    /\ bassCurrentNote.duration = 1000

\* C3: when defineBassNote is about to run, each of the three entries of the
\* harmonics row of the melody's pitch is a pitch it can store.
C3_BassPicksAmongAllThree ==
    pc = "bass" =>
        \A p \in HarmonicsRow(melodyCurrentNote.pitch) :
            ENABLED (defineBassNote /\ bassCurrentNote'.pitch = p)

WalkedOctave(octave, down, low, high) ==
    LET pre == IF down THEN octave - 1 ELSE octave + 1
    IN  IF pre = -1 THEN low ELSE IF pre = 6 THEN high ELSE pre

\* C5: the melody octave starts at 3, stays in 0..5, and each defineMelodyNote
\* moves it one down if totalAcc < 3 and one up otherwise, -1 becoming 5 and
\* 6 becoming 2.
C5_MelodyOctaveWalk ==
    /\ (pc = "setup" => melodyCurrentNote.octave = 3)
    /\ [](melodyCurrentNote.octave \in 0 .. 5)
    /\ [][pc = "melody" =>
            melodyCurrentNote'.octave =
                WalkedOctave(melodyCurrentNote.octave,
                             LT(totalAcc, 300), 5, 2)]_vars

\* Octave 5 right after a decrement: the step wrapped from -1.
C5_Witness ==
    /\ pc = "bass"
    /\ LT(totalAcc, 300)
    /\ melodyCurrentNote.octave = 5

\* C6: the bass octave starts at 0, stays in 0..5, and each defineBassNote
\* moves it one down if totalSpin < 3 and one up otherwise, -1 becoming 2 and
\* 6 becoming 0.
C6_BassOctaveWalk ==
    /\ (pc = "setup" => bassCurrentNote.octave = 0)
    /\ [](bassCurrentNote.octave \in 0 .. 5)
    /\ [][pc = "bass" =>
            bassCurrentNote'.octave =
                WalkedOctave(bassCurrentNote.octave,
                             LT(totalSpin, 300), 2, 0)]_vars

\* Octave 0 right after an increment: the step wrapped from 6.
C6_Witness ==
    /\ pc = "tone"
    /\ GE(totalSpin, 300)
    /\ bassCurrentNote.octave = 0

\* C7: in every pass the melody selector runs right after the sample is read
\* and the bass selector right after the melody selector, and the bass pitch
\* the pass ends with is an entry of the harmonics row of the melody pitch
\* set in that pass.
C7_MelodyBeforeBass ==
    /\ [][(pc = "loop" => pc' = "melody")
          /\ (pc' = "bass" => pc = "melody")
          /\ (pc = "melody" => bassCurrentNote' = bassCurrentNote)
          /\ (pc = "bass" => melodyCurrentNote' = melodyCurrentNote)]_vars
    /\ [](SelectorsDone =>
            bassCurrentNote.pitch \in HarmonicsRow(melodyCurrentNote.pitch))

\* The end of a later pass that set melody pitch 4 and took bass pitch 6
\* from row 4.
C7_Witness ==
    /\ pc = "notone"
    /\ cycle > 0
    /\ melodyCurrentNote.pitch = 4
    /\ bassCurrentNote.pitch = 6

\* C8: the first pass with totalAcc = 4.0 and totalSpin = 5.0 ends with melody
\* octave 4, melody pitch in 0..5, bass octave 1, bass pitch in the harmonics
\* row of the melody pitch, and both durations 125 or 250.
C8_FirstCycle ==
    (cycle = 0 /\ SelectorsDone /\ totalAcc = 400 * 400 /\ totalSpin = 500 * 500) =>
        /\ melodyCurrentNote.octave = 4
        /\ melodyCurrentNote.pitch \in 0 .. 5
        /\ bassCurrentNote.octave = 1
        /\ bassCurrentNote.pitch \in HarmonicsRow(melodyCurrentNote.pitch)
        /\ melodyCurrentNote.duration \in {125, 250}
        /\ bassCurrentNote.duration \in {125, 250}

C8_Witness ==
    /\ cycle = 0
    /\ pc = "notone"
    /\ a = <<400, 0>>
    /\ g = <<300, 400>>
    /\ melodyCurrentNote = [pitch |-> 5, octave |-> 4, duration |-> 250]
    /\ bassCurrentNote = [pitch |-> 2, octave |-> 1, duration |-> 125]

\* C9: after a failed initialization the program is halted for good: no sample
\* is read, both voices keep their initial values and no tone is started; the
\* polling loop runs only after a successful initialization.
C9_FailStop ==
    /\ [](mpu = "absent" =>
            /\ pc = "halted"
            /\ a = NoEvent /\ g = NoEvent
            /\ melodyCurrentNote = InitialMelody
            /\ bassCurrentNote = InitialBass
            /\ tone1 = Off /\ tone2 = Off
            /\ cycle = 0)
    /\ [](pc \notin {"setup", "halted"} => mpu = "ready")
    /\ [][(mpu = "absent" => mpu' = "absent")
          /\ (pc = "halted" => pc' = "halted")]_vars

C9_Witness ==
    /\ pc = "halted"
    /\ mpu = "absent"

\* C10: every pass reads a sample, runs the melody then the bass selector,
\* starts both tones, holds for the melody duration set in this pass and stops
\* both tones; both pins are off whenever a sample is read or a tone is about
\* to start, and after a successful initialization the pass repeats forever.
C10_CycleOrder ==
    /\ [][/\ pc = "loop" => (pc' = "melody" /\ a' # NoEvent /\ g' # NoEvent)
          /\ pc = "melody" => pc' = "bass"
          /\ pc = "bass" => pc' = "tone"
          /\ pc = "tone" => (pc' = "delay" /\ tone1' # Off /\ tone2' # Off)
          /\ pc = "delay" => (pc' = "notone" /\ hold' = melodyCurrentNote.duration)
          /\ pc = "notone" => (pc' = "loop" /\ tone1' = Off /\ tone2' = Off)
          /\ pc \in {"bass", "tone", "delay", "notone"} =>
                melodyCurrentNote' = melodyCurrentNote]_vars
    /\ [](pc \in {"loop", "melody", "bass", "tone"} =>
            (tone1 = Off /\ tone2 = Off))
    /\ [](pc \in {"delay", "notone"} => (tone1 # Off /\ tone2 # Off))
    /\ []<>(mpu # "ready" \/ pc = "notone")

\* The end of the hold in a pass after the first one.
C10_Witness ==
    /\ pc = "notone"
    /\ cycle > 0
    /\ hold = melodyCurrentNote.duration
    /\ hold # bassCurrentNote.duration

\* totalAcc <= 0.5 or totalAcc >= 3
InFastBand == ~ GT(totalAcc, 50) \/ GE(totalAcc, 300)

\* C11: with totalAcc <= 0.5 or totalAcc >= 3 the draw is among indices 0..9
\* and both durations are 125 or 250 ms.
C11_FastBandIs125Or250 ==
    /\ (MelodyDone /\ InFastBand) =>
          /\ DurationIndices(totalAcc) = 0 .. 9
          /\ defineNoteDuration(totalAcc) = {125, 250}
          /\ melodyCurrentNote.duration \in {125, 250}
    /\ (SelectorsDone /\ InFastBand) =>
          bassCurrentNote.duration \in {125, 250}

C11_Witness ==
    /\ pc = "tone"
    /\ a = <<300, 400>>
    /\ melodyCurrentNote.duration = 250
    /\ bassCurrentNote.duration = 125

\* 3 <= totalSpin <= 4 and totalAcc >= 0.5: no pitch walk, no silence override.
InNoOpZone ==
    /\ GE(totalSpin, 300) /\ ~ GT(totalSpin, 400)
    /\ GE(totalAcc, 50)

\* C13 as stated: in the no-op zone defineMelodyNote leaves the melody pitch as
\* it was, for every previous pitch, 7 included.
C13_NoOpZoneKeepsPitch ==
    [][(pc = "melody" /\ InNoOpZone) =>
          melodyCurrentNote'.pitch = melodyCurrentNote.pitch]_vars

\* C13 amended: in the no-op zone defineMelodyNote leaves a melody pitch in
\* 0..6 as it was and turns a previous pitch 7 into 4.
C13_NoOpZoneKeepsAudiblePitch ==
    [][(pc = "melody" /\ InNoOpZone) =>
          melodyCurrentNote'.pitch =
              IF melodyCurrentNote.pitch = 7 THEN 4
              ELSE melodyCurrentNote.pitch]_vars

\* After defineMelodyNote in the no-op zone with previous pitch 7 (the bass
\* still holds the 7 of the last pass): the melody pitch is 4.
C13_Witness ==
    /\ pc = "bass"
    /\ InNoOpZone
    /\ bassCurrentNote.pitch = 7
    /\ melodyCurrentNote.pitch = 4

\* C14: every table access is in bounds: the duration indices a selector can
\* draw are in 0..19, defineBassNote reads harmonics at a row in 0..7 and a
\* column in 0..2, and playNote reads bb_scale at an octave in 0..5 and a
\* pitch in 0..7 for both voices.
C14_TableAccessInBounds ==
    /\ pc \in {"melody", "bass"} =>
          DurationIndices(totalAcc) \subseteq 0 .. (Len(noteDuration) - 1)
    /\ pc = "bass" =>
          /\ melodyCurrentNote.pitch \in 0 .. (Len(harmonics) - 1)
          /\ Random(0, 2) \subseteq 0 .. 2
    /\ pc = "tone" =>
          /\ melodyCurrentNote.octave \in 0 .. 5
          /\ melodyCurrentNote.pitch \in 0 .. 7
          /\ bassCurrentNote.octave \in 0 .. 5
          /\ bassCurrentNote.pitch \in 0 .. 7

\* playNote about to look up the highest row and the silence column for the
\* melody and the lowest row for the bass.
C14_Witness ==
    /\ pc = "tone"
    /\ melodyCurrentNote.octave = 5
    /\ melodyCurrentNote.pitch = 7
    /\ bassCurrentNote.octave = 0
    /\ bassCurrentNote.pitch = 7

\* C15: at the end of every pass the bass pitch is 7 exactly when the melody
\* pitch is 7, which is exactly when totalAcc < 0.5 or totalSpin < 0.5;
\* harmonics row 7 is all 7 and no other row contains 7.
C15_BassSilentIffMelodySilent ==
    /\ HarmonicsRow(7) = {7}
    /\ \A p \in 0 .. 6 : 7 \notin HarmonicsRow(p)
    /\ SelectorsDone =>
          /\ bassCurrentNote.pitch = 7 <=> melodyCurrentNote.pitch = 7
          /\ bassCurrentNote.pitch = 7 <=>
                (LT(totalAcc, 50) \/ LT(totalSpin, 50))

\* A silent pass that follows an audible one.
C15_Witness ==
    /\ pc = "notone"
    /\ cycle > 0
    /\ LT(totalSpin, 50)
    /\ ~ LT(totalAcc, 50)
    /\ melodyCurrentNote.pitch = 7
    /\ bassCurrentNote.pitch = 7

\* C16: defineMelodyNote always changes the melody octave and defineBassNote
\* always changes the bass octave.
C16_OctaveAlwaysMoves ==
    [][/\ pc = "melody" =>
             melodyCurrentNote'.octave # melodyCurrentNote.octave
       /\ pc = "bass" =>
             bassCurrentNote'.octave # bassCurrentNote.octave]_vars

\* Both voices just wrapped: the melody from -1 to 5, the bass from 6 to 0.
C16_Witness ==
    /\ pc = "tone"
    /\ LT(totalAcc, 300)
    /\ melodyCurrentNote.octave = 5
    /\ GE(totalSpin, 300)
    /\ bassCurrentNote.octave = 0

====
